---- MODULE Spec2Model ----
(***************************************************************************)
(* Model of the diff-checker request scheduler (DiffViewer.tsx), of the    *)
(* compute worker (diff.worker.ts) and of the message channel between      *)
(* them.                                                                   *)
(*                                                                         *)
(* Time.  The code reads Date.now() and keeps lastRequestTime and          *)
(* lastResponseTime only to compute the two differences                    *)
(* timeSinceLastRequest and timeSinceLastResponse (DiffViewer.tsx:179-181).*)
(* The model keeps these two differences as state; they grow when time     *)
(* advances and are reset where the code stores Date.now().  The code      *)
(* compares the first only with 3000 and the second only with 100, so      *)
(* every value above 3000 (resp. from 100 on) is kept as one value.        *)
(* A timer is kept as the time left until it is due.                       *)
(*                                                                         *)
(* Timestamps.  A response is stamped with Date.now() in the worker; the   *)
(* scheduler only compares stamps with each other, so a stamp is kept as   *)
(* its rank in the order of the worker's clock readings.                   *)
(***************************************************************************)
EXTENDS Integers, Sequences, FiniteSets, TLC

\* ------------------------------------------------------------- bounds
MaxEdits == 3
MaxOutstanding == 2
MaxStamp == 2
Tick == 75
MaxParts == 3
MaxLen == 2
MaxSnippets == 2
MaxPaste == 2
MaxRenders == 6

\* ---------------------------------------------------- program constants
QuietPeriod == 100
ForcedBound == 3000

\* A text is a sequence of characters.
TextValues == {<<>>, <<"a">>}
CostValues == {4}
ModeValues == {"efficiency", "semantic"}

VARIABLES
  editableLeft, editableRight, editCost, cleanupMode, splitByLine,
  mounted, nextId,
  workerRef, cachedRequest, pendingRequest,
  timeSinceLastRequest, timeSinceLastResponse,
  postResponseTimer, timeoutTimer,
  lastWorkerTimestamp, workerDiff,
  inbox, outbox, workerClock,
  shownOf, sent, overdue, lastStep,
  rawParts, processedParts, click,
  snippets, leftId, rightId, selectedPanel, isEditMode,
  untitledCounter, droppedCounter, pastedCounter,
  pasteCalls, updateTimer, lastEvent,
  requestToSend

props == <<editableLeft, editableRight, editCost, cleanupMode, splitByLine>>
timers == <<postResponseTimer, timeoutTimer>>
shown == <<lastWorkerTimestamp, workerDiff, shownOf>>
\* the worker's locals parts (rawParts) and processedParts, and the last
\* click on the displayed diff
\* the state of App: the snippet list, the two selected ids, the selected
\* panel, the edit mode, the three title counters; the Ctrl+V handlers
\* waiting for the clipboard; the debounce timer of the textareas; and the
\* last user event
app == <<snippets, leftId, rightId, selectedPanel, isEditMode,
         untitledCounter, droppedCounter, pastedCounter,
         pasteCalls, updateTimer, lastEvent>>
\* and, in the earlier scheduler, the request the quiet-period timer will send
lab == <<rawParts, processedParts, click, app, requestToSend>>
vars == <<props, mounted, nextId, workerRef, cachedRequest, pendingRequest,
          timeSinceLastRequest, timeSinceLastResponse, timers, shown,
          inbox, outbox, workerClock, sent, overdue, lastStep, lab>>

\* ------------------------------------------------------------- values
NoRequest ==
  [id |-> 0, text1 |-> <<>>, text2 |-> <<>>, editCost |-> 0,
   cleanupMode |-> "efficiency", splitByLine |-> FALSE]

NoTimer == [ref |-> FALSE, live |-> FALSE, left |-> 0]

SetTimeout(delay) == [ref |-> TRUE, live |-> TRUE, left |-> delay]

\* a clearTimeout that cancels nothing
ClearTimeoutNot(t) == t

\* clearTimeout(t.current): the callback is cancelled, the ref keeps the handle
ClearTimeout(t) == [ref |-> t.ref, live |-> FALSE, left |-> 0]

\* timeSinceLastRequest is only compared with ForcedBound
SatRequest(t) == IF t > ForcedBound THEN ForcedBound + 1 ELSE t

\* timeSinceLastResponse is only compared with QuietPeriod
SatResponse(t) == IF t >= QuietPeriod THEN QuietPeriod ELSE t

Elapse(t, d) ==
  IF t.live THEN [t EXCEPT !.left = IF t.left > d THEN t.left - d ELSE 0] ELSE t

Outstanding == Len(inbox) + Len(outbox)

\* no Ctrl+click on the displayed diff yet
NoClick ==
  [index |-> 0, side |-> "none", ctrl |-> FALSE, called |-> FALSE,
   newContent |-> <<>>, error |-> FALSE]

\* ------------------------------------------------------ the diff worker
\* dmp.diff_main on texts of at most one character, where the library takes
\* its early exits only: equal texts, an empty side, or two different
\* single characters.  A script is a sequence of <<type, text>> with type
\* -1 (delete), 0 (equal) or 1 (insert).
diff_main(text1, text2) ==
  IF text1 = text2
    THEN IF text1 # <<>> THEN << <<0, text1>> >> ELSE <<>>
  ELSE IF text1 = <<>> THEN << <<1, text2>> >>
  ELSE IF text2 = <<>> THEN << <<-1, text1>> >>
  ELSE << <<-1, text1>>, <<1, text2>> >>

MapType(type) ==
  IF type = -1 THEN "delete" ELSE IF type = 1 THEN "insert" ELSE "equal"

\* On the scripts diff_main returns for such texts neither cleanup pass has
\* anything to merge, so the script is mapped as diff_main returned it.
computeDiff(text1, text2, cost, mode) ==
  LET diffs == diff_main(text1, text2)
  IN  [i \in 1..Len(diffs) |->
         [type |-> MapType(diffs[i][1]), value |-> diffs[i][2]]]

NL == "\n"

\* a split that leaves the text whole
SplitLinesWhole(value, cur) == <<value>>

RECURSIVE SplitLines(_, _)
\* value.split('\n'): the lines of value, cur being the line read so far
SplitLines(value, cur) ==
  IF value = <<>> THEN <<cur>>
  ELSE IF Head(value) = NL THEN <<cur>> \o SplitLines(Tail(value), <<>>)
  ELSE SplitLines(Tail(value), Append(cur, Head(value)))

RECURSIVE SplitPartNoNewline(_, _, _)
\* the inner loop without the newline put back
SplitPartNoNewline(type, lines, i) ==
  IF i > Len(lines) THEN <<>>
  ELSE LET line == lines[i]
           isLastLine == (i = Len(lines))
           rest == SplitPartNoNewline(type, lines, i + 1)
       IN  IF Len(line) > 0 \/ ~isLastLine
             THEN << [type |-> type, value |-> line] >> \o rest
             ELSE rest

RECURSIVE SplitPartKeepEmpty(_, _, _)
\* the inner loop pushing every line, the empty last one too
SplitPartKeepEmpty(type, lines, i) ==
  IF i > Len(lines) THEN <<>>
  ELSE << [type |-> type,
           value |-> IF i = Len(lines) THEN lines[i]
                     ELSE Append(lines[i], NL)] >>
       \o SplitPartKeepEmpty(type, lines, i + 1)

RECURSIVE SplitPart(_, _, _)
\* the inner loop of split_diff_parts over lines[i..]
SplitPart(type, lines, i) ==
  IF i > Len(lines) THEN <<>>
  ELSE LET line == lines[i]
           isLastLine == (i = Len(lines))
           rest == SplitPart(type, lines, i + 1)
       IN  IF Len(line) > 0 \/ ~isLastLine
             THEN << [type |-> type,
                      value |-> IF isLastLine THEN line ELSE Append(line, NL)] >>
                  \o rest
             ELSE rest

RECURSIVE SplitAll(_)
SplitAll(parts) ==
  IF parts = <<>> THEN <<>>
  ELSE SplitPart(Head(parts).type, SplitLines(Head(parts).value, <<>>), 1)
       \o SplitAll(Tail(parts))

\* a split that ignores the switch
split_diff_partsAlways(parts, byLine) == SplitAll(parts)

split_diff_parts(parts, byLine) == IF ~byLine THEN parts ELSE SplitAll(parts)

\* what the worker posts for request r (the try branch of its listener)
WorkerParts(r) ==
  split_diff_parts(computeDiff(r.text1, r.text2, r.editCost, r.cleanupMode),
                   r.splitByLine)

\* ------------------------------------------------------------------ App
\* no debounced content update armed
NoUpdate == [live |-> FALSE, id |-> 0, value |-> <<>>]

\* the last event was neither typing nor a click on a hunk or on a Paste
\* button
NoEvent == [kind |-> "none", side |-> "none"]

\* App as constructed, with the snippet list it starts from.  Ids are
\* numbers, 0 standing for the empty id ''.
AppStart(list) ==
  /\ snippets = list
  /\ leftId = 1 /\ rightId = 2
  /\ selectedPanel = "none" /\ isEditMode = FALSE
  /\ untitledCounter = 0 /\ droppedCounter = 0 /\ pastedCounter = 0
  /\ pasteCalls = <<>> /\ updateTimer = NoUpdate
  /\ lastEvent = NoEvent
  /\ requestToSend = NoRequest

\* ------------------------------------------------------------ scheduler
Init ==
  /\ editableLeft = <<>> /\ editableRight = <<>>
  /\ editCost = 4 /\ cleanupMode = "efficiency" /\ splitByLine = FALSE
  /\ mounted = FALSE /\ nextId = 0
  /\ workerRef = TRUE
  /\ cachedRequest = NoRequest /\ pendingRequest = NoRequest
  /\ timeSinceLastRequest = ForcedBound + 1
  /\ timeSinceLastResponse = QuietPeriod
  /\ postResponseTimer = NoTimer /\ timeoutTimer = NoTimer
  /\ lastWorkerTimestamp = 0 /\ workerDiff = <<>> /\ shownOf = 0
  /\ inbox = <<>> /\ outbox = <<>> /\ workerClock = 1
  /\ sent = {} /\ overdue = FALSE
  /\ lastStep = [kind |-> "init", posted |-> FALSE, stale |-> FALSE, idle |-> FALSE]
  /\ rawParts = <<>> /\ processedParts = <<>> /\ click = NoClick
  /\ AppStart(<<>>)

\* a sendWorkerRequest that posts nothing while a request is recorded in
\* flight
CanSendWhenIdle(c) == workerRef /\ c # NoRequest /\ pendingRequest = NoRequest

\* sendWorkerRequest, past its two early returns, with cachedRequest = c
CanSend(c) == workerRef /\ c # NoRequest

\* timeSinceLastRequest > 3000
ForcedDue(sinceRequest) == sinceRequest > ForcedBound

\* the quiet period tested with <= in place of <
InQuietPeriodInclusive(sinceResponse) == sinceResponse <= QuietPeriod

\* timeSinceLastResponse < 100
InQuietPeriod(sinceResponse) == sinceResponse < QuietPeriod

\* the in-flight slot never consulted
NothingPendingAlways(pending) == TRUE

\* !pendingRequest.current
NothingPending(pending) == pending = NoRequest

\* no timer armed for an edit made within the quiet period
MayArmNever(timer, pending) == FALSE

\* postResponseTimer.current === null && !pendingRequest.current
MayArm(timer, pending) == ~timer.ref /\ pending = NoRequest

\* a response published only if stamped later than the last accepted one
IsNewerStrict(timestamp, last) == timestamp > last

\* every response published, whatever its stamp
IsNewerAlways(timestamp, last) == TRUE

\* timestamp >= lastWorkerTimestamp.current
IsNewer(timestamp, last) == timestamp >= last

\* the buffered slot only tested for null
SameRequestNullOnly(cached, pending) == cached = NoRequest

\* the two requests compared by their fields, not as objects
SameRequestByContent(cached, pending) ==
  [cached EXCEPT !.id = 0] = [pending EXCEPT !.id = 0]

\* cachedRequest.current === pendingRequest.current (the same object, or
\* both null)
SameRequest(cached, pending) == cached = pending

DoSend(c) ==
  /\ pendingRequest' = c
  /\ timeSinceLastRequest' = 0
  /\ inbox' = Append(inbox, c)
  /\ postResponseTimer' = NoTimer
  /\ timeoutTimer' = SetTimeout(ForcedBound)
  /\ sent' = sent \cup {c.id}

\* the body of the effect that triggers the computation, for a new request
TriggerEffect(request) ==
  LET step(posted) == [kind |-> "edit", posted |-> posted, stale |-> FALSE,
                       idle |-> pendingRequest = NoRequest]
  IN
  /\ cachedRequest' = request
  /\ IF ForcedDue(timeSinceLastRequest)
       THEN /\ DoSend(request)
            /\ lastStep' = step(TRUE)
     ELSE IF InQuietPeriod(timeSinceLastResponse)
       THEN /\ postResponseTimer' =
                 IF MayArm(postResponseTimer, pendingRequest)
                   THEN SetTimeout(QuietPeriod - timeSinceLastResponse)
                   ELSE postResponseTimer
            /\ UNCHANGED <<pendingRequest, timeSinceLastRequest, inbox,
                           timeoutTimer, sent>>
            /\ lastStep' = step(FALSE)
     ELSE IF NothingPending(pendingRequest)
       THEN /\ DoSend(request)
            /\ lastStep' = step(TRUE)
     ELSE /\ UNCHANGED <<pendingRequest, timeSinceLastRequest, inbox, timers,
                         sent>>
          /\ lastStep' = step(FALSE)

\* an edit that writes its values into the request object made last
NewRequestSameObject(l, r, c, m, s) ==
  [id |-> IF nextId = 0 THEN 1 ELSE nextId, text1 |-> l, text2 |-> r,
   editCost |-> c, cleanupMode |-> m, splitByLine |-> s]

NewRequest(l, r, c, m, s) ==
  [id |-> nextId + 1, text1 |-> l, text2 |-> r, editCost |-> c,
   cleanupMode |-> m, splitByLine |-> s]

\* the first run of the effect, after the component has mounted
Mount ==
  /\ ~mounted /\ workerRef
  /\ mounted' = TRUE
  /\ nextId' = nextId + 1
  /\ TriggerEffect(NewRequest(editableLeft, editableRight, editCost,
                              cleanupMode, splitByLine))
  /\ UNCHANGED <<lab, props, workerRef, timeSinceLastResponse, shown, outbox,
                 workerClock, overdue>>

\* one dependency of the effect changes and the effect runs again
Edit ==
  /\ mounted /\ workerRef /\ nextId < MaxEdits
  /\ \E l \in TextValues, r \in TextValues, c \in CostValues,
        m \in ModeValues, s \in BOOLEAN :
       /\ Cardinality({i \in 1..5 :
             <<l, r, c, m, s>>[i] # props[i]}) = 1
       /\ editableLeft' = l /\ editableRight' = r /\ editCost' = c
       /\ cleanupMode' = m /\ splitByLine' = s
       /\ TriggerEffect(NewRequest(l, r, c, m, s))
  /\ nextId' = nextId + 1
  /\ UNCHANGED <<lab, mounted, workerRef, timeSinceLastResponse, shown,
                 outbox, workerClock, overdue>>

\* a timer callback: sendWorkerRequest() with the current cachedRequest
FireTimer(kind) ==
  /\ IF CanSend(cachedRequest)
       THEN /\ DoSend(cachedRequest)
            /\ lastStep' = [kind |-> kind, posted |-> TRUE, stale |-> FALSE, idle |-> FALSE]
       ELSE /\ UNCHANGED <<pendingRequest, timeSinceLastRequest, inbox, sent>>
            /\ postResponseTimer' =
                 IF kind = "quiet" THEN ClearTimeout(postResponseTimer)
                                   ELSE postResponseTimer
            /\ timeoutTimer' =
                 IF kind = "timeout" THEN ClearTimeout(timeoutTimer)
                                     ELSE timeoutTimer
            /\ lastStep' = [kind |-> kind, posted |-> FALSE, stale |-> FALSE, idle |-> FALSE]
  /\ UNCHANGED <<lab, props, mounted, nextId, workerRef, cachedRequest,
                 timeSinceLastResponse, shown, outbox, workerClock, overdue>>

FirePostResponse ==
  /\ postResponseTimer.live /\ postResponseTimer.left = 0
  /\ FireTimer("quiet")

FireTimeout ==
  /\ timeoutTimer.live /\ timeoutTimer.left = 0
  /\ FireTimer("timeout")

\* the worker answers the oldest request it holds, stamped t
Respond(t) ==
  /\ inbox # <<>>
  /\ outbox' = Append(outbox, [parts |-> WorkerParts(Head(inbox)),
                               timestamp |-> t, of |-> Head(inbox).id])
  /\ inbox' = Tail(inbox)
  /\ workerClock' = t
  /\ lastStep' = [kind |-> "respond", posted |-> FALSE, stale |-> FALSE, idle |-> FALSE]
  /\ UNCHANGED <<lab, props, mounted, nextId, workerRef, cachedRequest,
                 pendingRequest, timeSinceLastRequest, timeSinceLastResponse,
                 timers, shown, sent, overdue>>

\* Date.now() in the worker does not go back between two completions
WorkerRespond ==
  \E t \in {workerClock, workerClock + 1} : t <= MaxStamp /\ Respond(t)

\* workerRef.current.onmessage
Receive ==
  /\ workerRef /\ outbox # <<>>
  /\ LET m == Head(outbox) IN
       /\ IF IsNewer(m.timestamp, lastWorkerTimestamp)
            THEN /\ lastWorkerTimestamp' = m.timestamp
                 /\ workerDiff' = m.parts
                 /\ shownOf' = m.of
            ELSE UNCHANGED shown
       /\ timeSinceLastResponse' = 0
       /\ timeoutTimer' = NoTimer
       /\ IF SameRequest(cachedRequest, pendingRequest)
            THEN /\ cachedRequest' = NoRequest
                 /\ pendingRequest' = NoRequest
                 /\ UNCHANGED postResponseTimer
            ELSE /\ postResponseTimer' = SetTimeout(QuietPeriod)
                 /\ UNCHANGED <<cachedRequest, pendingRequest>>
  /\ outbox' = Tail(outbox)
  /\ lastStep' = [kind |-> "receive", posted |-> FALSE,
                  stale |-> Head(outbox).timestamp < lastWorkerTimestamp,
                  idle |-> FALSE]
  /\ UNCHANGED <<lab, props, mounted, nextId, workerRef, timeSinceLastRequest,
                 inbox, workerClock, sent, overdue>>

\* Tick time units pass
Advance ==
  /\ Outstanding < MaxOutstanding
  /\ timeSinceLastRequest' = SatRequest(timeSinceLastRequest + Tick)
  /\ timeSinceLastResponse' = SatResponse(timeSinceLastResponse + Tick)
  /\ postResponseTimer' = Elapse(postResponseTimer, Tick)
  /\ timeoutTimer' = Elapse(timeoutTimer, Tick)
  /\ overdue' = (overdue \/ (Outstanding >= 1 /\
                   timeSinceLastRequest + Tick >= ForcedBound))
  /\ lastStep' = [kind |-> "advance", posted |-> FALSE, stale |-> FALSE, idle |-> FALSE]
  /\ UNCHANGED <<lab, props, mounted, nextId, workerRef, cachedRequest,
                 pendingRequest, shown, inbox, outbox, workerClock, sent>>

\* the cleanup of the effect that created the worker
Teardown ==
  /\ workerRef
  /\ workerRef' = FALSE
  /\ inbox' = <<>> /\ outbox' = <<>>
  /\ postResponseTimer' = ClearTimeout(postResponseTimer)
  /\ timeoutTimer' = ClearTimeout(timeoutTimer)
  /\ cachedRequest' = NoRequest /\ pendingRequest' = NoRequest
  /\ lastStep' = [kind |-> "teardown", posted |-> FALSE, stale |-> FALSE, idle |-> FALSE]
  /\ UNCHANGED <<lab, props, mounted, nextId, timeSinceLastRequest,
                 timeSinceLastResponse, shown, workerClock, sent, overdue>>

Next ==
  \/ Mount
  \/ Edit
  \/ FirePostResponse
  \/ FireTimeout
  \/ WorkerRespond
  \/ Receive
  \/ Advance
  \/ Teardown

Spec == Init /\ [][Next]_vars

\* Date.now() is the wall clock: it can be set back between two completions,
\* and the worker then stamps a response lower than an earlier one.
WorkerRespondSkewed ==
  \E t \in 1..MaxStamp : t < workerClock /\ Respond(t)

NextSkew ==
  \/ Next
  \/ WorkerRespondSkewed

SpecSkew == Init /\ [][NextSkew]_vars

\* a catch branch that posts its response without a stamp
ErrorResponseNoStamp(r, t) == [parts |-> <<>>, timestamp |-> 0, of |-> r.id]

\* what the catch branch of the worker's listener posts, stamped t
ErrorResponse(r, t) == [parts |-> <<>>, timestamp |-> t, of |-> r.id]

\* computeDiff, split_diff_parts or postMessage throws in the try branch of
\* the listener, for whatever reason the library or the platform has, and
\* the catch branch posts
WorkerThrow ==
  /\ inbox # <<>>
  /\ \E t \in {workerClock, workerClock + 1} :
       /\ t <= MaxStamp
       /\ outbox' = Append(outbox, ErrorResponse(Head(inbox), t))
       /\ workerClock' = t
  /\ inbox' = Tail(inbox)
  /\ lastStep' = [kind |-> "throw", posted |-> FALSE, stale |-> FALSE, idle |-> FALSE]
  /\ UNCHANGED <<lab, props, mounted, nextId, workerRef, cachedRequest,
                 pendingRequest, timeSinceLastRequest, timeSinceLastResponse,
                 timers, shown, sent, overdue>>

NextFail ==
  \/ Next
  \/ WorkerThrow

SpecFail == Init /\ [][NextFail]_vars

\* A worker that stays alive and answers every request, an event loop that
\* runs every due callback and delivers every message, and time that passes.
NextLive ==
  \/ Mount
  \/ Edit
  \/ FirePostResponse
  \/ FireTimeout
  \/ WorkerRespond
  \/ Receive
  \/ Advance

SpecLive ==
  /\ Init /\ [][NextLive]_vars
  /\ WF_vars(Mount)
  /\ WF_vars(FirePostResponse) /\ WF_vars(FireTimeout)
  /\ WF_vars(WorkerRespond) /\ WF_vars(Receive)
  /\ WF_vars(Advance)


\* The same event loop and clock, and a worker that may never answer.
SpecStuck ==
  /\ Init /\ [][NextLive]_vars
  /\ WF_vars(Mount)
  /\ WF_vars(FirePostResponse) /\ WF_vars(FireTimeout)
  /\ WF_vars(Advance)

\* ---------------------------------------------- the earlier scheduler
\* The component before the worker served view mode: the worker lives while
\* isEditMode holds, sendWorkerRequest takes the request to send, and the
\* quiet-period timer is armed by onmessage only.

\* the component is mounted in view mode: no worker, both effects have run
\* and done nothing
InitEarlier ==
  /\ editableLeft = <<>> /\ editableRight = <<>>
  /\ editCost = 4 /\ cleanupMode = "efficiency" /\ splitByLine = FALSE
  /\ mounted = TRUE /\ nextId = 0
  /\ workerRef = FALSE
  /\ cachedRequest = NoRequest /\ pendingRequest = NoRequest
  /\ timeSinceLastRequest = ForcedBound + 1
  /\ timeSinceLastResponse = QuietPeriod
  /\ postResponseTimer = NoTimer /\ timeoutTimer = NoTimer
  /\ lastWorkerTimestamp = 0 /\ workerDiff = <<>> /\ shownOf = 0
  /\ inbox = <<>> /\ outbox = <<>> /\ workerClock = 1
  /\ sent = {} /\ overdue = FALSE
  /\ lastStep = [kind |-> "init", posted |-> FALSE, stale |-> FALSE, idle |-> FALSE]
  /\ rawParts = <<>> /\ processedParts = <<>> /\ click = NoClick
  /\ AppStart(<<>>)

\* what the earlier scheduler leaves alone
EarlierFrame ==
  UNCHANGED <<rawParts, processedParts, click, snippets, leftId, rightId,
              selectedPanel, untitledCounter, droppedCounter, pastedCounter,
              pasteCalls, updateTimer, lastEvent, splitByLine, mounted,
              overdue>>

\* timeSinceLastResponse >= 100 || lastResponseTime.current === 0
QuietOver(sinceResponse) == sinceResponse >= QuietPeriod

\* timeSinceLastRequest >= 3000
TimedOut(sinceRequest) == sinceRequest >= ForcedBound

\* sendWorkerRequest(request), past its early return
EarlierSend(request) ==
  /\ pendingRequest' = request
  /\ timeSinceLastRequest' = 0
  /\ inbox' = Append(inbox, request)
  /\ timeoutTimer' = SetTimeout(ForcedBound)
  /\ sent' = sent \cup {request.id}

\* the body of the effect that triggers the computation, past its early
\* return, for a new request
EarlierEffect(request) ==
  LET step(posted) == [kind |-> "edit", posted |-> posted, stale |-> FALSE,
                       idle |-> pendingRequest = NoRequest]
  IN
  /\ postResponseTimer' = NoTimer
  /\ requestToSend' = NoRequest
  /\ IF pendingRequest = NoRequest /\ QuietOver(timeSinceLastResponse)
       THEN /\ EarlierSend(request)
            /\ UNCHANGED cachedRequest
            /\ lastStep' = step(TRUE)
     ELSE IF pendingRequest # NoRequest /\ TimedOut(timeSinceLastRequest)
       THEN /\ cachedRequest' = NoRequest
            /\ EarlierSend(request)
            /\ lastStep' = step(TRUE)
     ELSE /\ cachedRequest' = request
          /\ UNCHANGED <<pendingRequest, timeSinceLastRequest, inbox,
                         timeoutTimer, sent>>
          /\ lastStep' = step(FALSE)

\* isEditMode becomes true: the worker is created and the effect runs
EarlierEnter ==
  /\ ~isEditMode /\ nextId < MaxEdits
  /\ isEditMode' = TRUE /\ workerRef' = TRUE
  /\ nextId' = nextId + 1
  /\ EarlierEffect(NewRequest(editableLeft, editableRight, editCost,
                              cleanupMode, FALSE))
  /\ UNCHANGED <<editableLeft, editableRight, editCost, cleanupMode,
                 timeSinceLastResponse, shown, outbox, workerClock>>
  /\ EarlierFrame

\* isEditMode becomes false: the cleanup terminates the worker and clears
\* both timers; the effect returns at once
EarlierLeave ==
  /\ isEditMode
  /\ isEditMode' = FALSE /\ workerRef' = FALSE
  /\ inbox' = <<>> /\ outbox' = <<>>
  /\ postResponseTimer' = ClearTimeout(postResponseTimer)
  /\ timeoutTimer' = ClearTimeout(timeoutTimer)
  /\ requestToSend' = NoRequest
  /\ lastStep' = [kind |-> "teardown", posted |-> FALSE, stale |-> FALSE, idle |-> FALSE]
  /\ UNCHANGED <<editableLeft, editableRight, editCost, cleanupMode, nextId,
                 cachedRequest, pendingRequest, timeSinceLastRequest,
                 timeSinceLastResponse, shown, workerClock, sent>>
  /\ EarlierFrame

\* in edit mode one dependency of the effect changes and the effect runs
EarlierEdit ==
  /\ isEditMode /\ workerRef /\ nextId < MaxEdits
  /\ \E l \in TextValues, r \in TextValues, c \in CostValues,
        m \in ModeValues :
       /\ Cardinality({i \in 1..4 :
             <<l, r, c, m>>[i] # props[i]}) = 1
       /\ editableLeft' = l /\ editableRight' = r /\ editCost' = c
       /\ cleanupMode' = m
       /\ EarlierEffect(NewRequest(l, r, c, m, FALSE))
  /\ nextId' = nextId + 1
  /\ UNCHANGED <<isEditMode, workerRef, timeSinceLastResponse, shown, outbox,
                 workerClock>>
  /\ EarlierFrame

\* the quiet-period timer fires: sendWorkerRequest(requestToSend)
EarlierFirePostResponse ==
  /\ postResponseTimer.live /\ postResponseTimer.left = 0
  /\ postResponseTimer' = ClearTimeout(postResponseTimer)
  /\ requestToSend' = NoRequest
  /\ IF workerRef
       THEN /\ EarlierSend(requestToSend)
            /\ lastStep' = [kind |-> "quiet", posted |-> TRUE, stale |-> FALSE, idle |-> FALSE]
       ELSE /\ UNCHANGED <<pendingRequest, timeSinceLastRequest, inbox,
                           timeoutTimer, sent>>
            /\ lastStep' = [kind |-> "quiet", posted |-> FALSE, stale |-> FALSE, idle |-> FALSE]
  /\ UNCHANGED <<props, isEditMode, workerRef, nextId, cachedRequest,
                 timeSinceLastResponse, shown, outbox, workerClock>>
  /\ UNCHANGED <<rawParts, processedParts, click, snippets, leftId, rightId,
                 selectedPanel, untitledCounter, droppedCounter,
                 pastedCounter, pasteCalls, updateTimer, lastEvent, mounted,
                 overdue>>

\* the 3000 timer fires: a cached request is sent, or nothing happens
EarlierFireTimeout ==
  /\ timeoutTimer.live /\ timeoutTimer.left = 0
  /\ IF cachedRequest # NoRequest
       THEN /\ cachedRequest' = NoRequest
            /\ IF workerRef
                 THEN /\ EarlierSend(cachedRequest)
                      /\ lastStep' = [kind |-> "timeout", posted |-> TRUE, stale |-> FALSE, idle |-> FALSE]
                 ELSE /\ pendingRequest' = NoRequest
                      /\ timeoutTimer' = ClearTimeout(timeoutTimer)
                      /\ UNCHANGED <<timeSinceLastRequest, inbox, sent>>
                      /\ lastStep' = [kind |-> "timeout", posted |-> FALSE, stale |-> FALSE, idle |-> FALSE]
       ELSE /\ timeoutTimer' = ClearTimeout(timeoutTimer)
            /\ UNCHANGED <<cachedRequest, pendingRequest,
                           timeSinceLastRequest, inbox, sent>>
            /\ lastStep' = [kind |-> "timeout", posted |-> FALSE, stale |-> FALSE, idle |-> FALSE]
  /\ UNCHANGED <<props, isEditMode, workerRef, nextId, postResponseTimer,
                 requestToSend, timeSinceLastResponse, shown, outbox,
                 workerClock>>
  /\ UNCHANGED <<rawParts, processedParts, click, snippets, leftId, rightId,
                 selectedPanel, untitledCounter, droppedCounter,
                 pastedCounter, pasteCalls, updateTimer, lastEvent, mounted,
                 overdue>>

\* workerRef.current.onmessage of the earlier scheduler
EarlierReceive ==
  /\ workerRef /\ outbox # <<>>
  /\ LET m == Head(outbox) IN
       IF IsNewer(m.timestamp, lastWorkerTimestamp)
         THEN /\ lastWorkerTimestamp' = m.timestamp
              /\ workerDiff' = m.parts
              /\ shownOf' = m.of
         ELSE UNCHANGED shown
  /\ timeSinceLastResponse' = 0
  /\ pendingRequest' = NoRequest
  /\ timeoutTimer' = NoTimer
  /\ IF cachedRequest # NoRequest
       THEN /\ requestToSend' = cachedRequest
            /\ cachedRequest' = NoRequest
            /\ postResponseTimer' = SetTimeout(QuietPeriod)
       ELSE UNCHANGED <<requestToSend, cachedRequest, postResponseTimer>>
  /\ outbox' = Tail(outbox)
  /\ lastStep' = [kind |-> "receive", posted |-> FALSE,
                  stale |-> Head(outbox).timestamp < lastWorkerTimestamp,
                  idle |-> FALSE]
  /\ UNCHANGED <<props, isEditMode, workerRef, nextId, timeSinceLastRequest,
                 inbox, workerClock, sent>>
  /\ UNCHANGED <<rawParts, processedParts, click, snippets, leftId, rightId,
                 selectedPanel, untitledCounter, droppedCounter,
                 pastedCounter, pasteCalls, updateTimer, lastEvent, mounted,
                 overdue>>

NextEarlier ==
  \/ EarlierEnter
  \/ EarlierLeave
  \/ EarlierEdit
  \/ EarlierFirePostResponse
  \/ EarlierFireTimeout
  \/ EarlierReceive
  \/ WorkerRespond
  \/ Advance

SpecEarlier == InitEarlier /\ [][NextEarlier]_vars

\* an event loop that runs every due callback and delivers every message, a
\* worker that answers every request it holds, and time that passes
SpecEarlierLive ==
  /\ SpecEarlier
  /\ WF_vars(EarlierFirePostResponse) /\ WF_vars(EarlierFireTimeout)
  /\ WF_vars(WorkerRespond) /\ WF_vars(EarlierReceive)
  /\ WF_vars(Advance)

\* ------------------------------------------------------------ reconciler
\* array.join(''): the texts concatenated in order
RECURSIVE Join(_)
Join(texts) ==
  IF texts = <<>> THEN <<>> ELSE Head(texts) \o Join(Tail(texts))

\* a pair lookup that also looks for the insert before the delete
getPairIndexBothOrders(diff, index) ==
  LET typeAt(i) == IF i \in 1..Len(diff) THEN diff[i].type ELSE "undefined"
  IN  IF diff[index].type = "delete" /\ typeAt(index + 1) = "insert"
        THEN index + 1
      ELSE IF diff[index].type = "insert" /\ typeAt(index - 1) = "delete"
        THEN index - 1
      ELSE IF diff[index].type = "insert" /\ typeAt(index + 1) = "delete"
        THEN index + 1
      ELSE IF diff[index].type = "delete" /\ typeAt(index - 1) = "insert"
        THEN index - 1
      ELSE 0

\* a pair lookup that finds no pair
getPairIndexNone(diff, index) == 0

\* getPairIndex: positions are counted from 1 and 0 stands for null;
\* workerDiff[i]?.type outside the array is undefined
getPairIndex(diff, index) ==
  LET typeAt(i) == IF i \in 1..Len(diff) THEN diff[i].type ELSE "undefined"
  IN  IF diff[index].type = "delete" /\ typeAt(index + 1) = "insert"
        THEN index + 1
      ELSE IF diff[index].type = "insert" /\ typeAt(index - 1) = "delete"
        THEN index - 1
      ELSE 0

\* a substitution that keeps the targeted text
SubstituteKeep(diff, index, own, pairValue) ==
  Join([i \in 1..Len(diff) |->
          IF diff[i].type = "equal" \/ diff[i].type = own
            THEN diff[i].value ELSE <<>>])

\* workerDiff.map(...).join(''): equal texts and texts of the side's own
\* kind, the targeted one replaced by its pair's text
Substitute(diff, index, own, pairValue) ==
  Join([i \in 1..Len(diff) |->
          IF diff[i].type = "equal" THEN diff[i].value
          ELSE IF diff[i].type = own
            THEN IF i = index THEN pairValue ELSE diff[i].value
          ELSE <<>>])

RECURSIVE FilterFrom(_, _, _)
\* workerDiff.filter((p, i) => ...) over the positions i.., keep being the
\* positions the callback accepts
FilterFrom(diff, keep, i) ==
  IF i > Len(diff) THEN <<>>
  ELSE IF i \in keep THEN <<diff[i]>> \o FilterFrom(diff, keep, i + 1)
  ELSE FilterFrom(diff, keep, i + 1)

\* .map(p => p.value).join('')
JoinValues(ps) == Join([i \in 1..Len(ps) |-> ps[i].value])

\* a removal that removes nothing
RemoveNothing(diff, index, own) ==
  LET keep == {i \in 1..Len(diff) : diff[i].type = "equal" \/ diff[i].type = own}
  IN  JoinValues(FilterFrom(diff, keep, 1))

\* standard removal: every equal and own-kind operation but the targeted
Remove(diff, index, own) ==
  LET keep == {i \in 1..Len(diff) : i # index /\ (diff[i].type = "equal" \/ diff[i].type = own)}
  IN  JoinValues(FilterFrom(diff, keep, 1))

\* an acceptance that adds nothing
AcceptNothing(diff, index, own) ==
  LET keep == {i \in 1..Len(diff) : diff[i].type = "equal" \/ diff[i].type = own}
  IN  JoinValues(FilterFrom(diff, keep, 1))

\* the placeholder's text added: the targeted operation and every equal and
\* own-kind operation
Accept(diff, index, own) ==
  LET keep == {i \in 1..Len(diff) : i = index \/ diff[i].type = "equal" \/ diff[i].type = own}
  IN  JoinValues(FilterFrom(diff, keep, 1))

\* the panes: the left one gives no element to an insert that follows a
\* delete, the right one none to a delete followed by an insert; every other
\* operation has an element with the click handler in both panes
Rendered(diff, index, side) ==
  LET typeAt(i) == IF i \in 1..Len(diff) THEN diff[i].type ELSE "undefined"
  IN  IF side = "left"
        THEN ~(diff[index].type = "insert" /\ typeAt(index - 1) = "delete")
        ELSE ~(diff[index].type = "delete" /\ typeAt(index + 1) = "insert")

\* handleDiffClick(index, workerDiff[index], side): whether the update sink
\* is called, and with which content; error tells whether anything is
\* thrown or logged: only getPairIndex reading .type of workerDiff[index]
\* for an index outside the array throws, the handler has no other report
handleDiffClick(diff, index, side, ctrl) ==
  LET part == diff[index]
      pairIndex == getPairIndex(diff, index)
      own == IF side = "left" THEN "delete" ELSE "insert"
      foreign == IF side = "left" THEN "insert" ELSE "delete"
      none == [called |-> FALSE, newContent |-> <<>>, error |-> FALSE]
      call(content) == [called |-> TRUE, newContent |-> content,
                        error |-> FALSE]
  IN  IF ~ctrl THEN none
      ELSE IF index \notin 1..Len(diff)
        THEN [called |-> FALSE, newContent |-> <<>>, error |-> TRUE]
      ELSE IF part.type = own
        THEN IF pairIndex # 0 /\ diff[pairIndex].type = foreign
               THEN call(Substitute(diff, index, own, diff[pairIndex].value))
               ELSE call(Remove(diff, index, own))
      ELSE IF part.type = foreign
        THEN call(Accept(diff, index, own))
      ELSE none

\* ------------------------------------------------- App and its snippets
CR == "\r"

\* what the clipboard or a dragged selection holds
ClipboardValues == {<<"b", CR>>}

\* INITIAL_SNIPPETS, two examples with different contents
InitialSnippets ==
  << [id |-> 1, title |-> <<"example", 1>>, content |-> <<"a">>,
      auto |-> FALSE],
     [id |-> 2, title |-> <<"example", 2>>, content |-> <<"b">>,
      auto |-> FALSE] >>

\* snippets.find(s => s.id === id) finds one
HasSnippet(list, id) == \E i \in 1..Len(list) : list[i].id = id

\* the content of the snippet a side shows, '' when it shows none
ContentOf(list, id) ==
  IF HasSnippet(list, id)
    THEN list[CHOOSE i \in 1..Len(list) : list[i].id = id].content
    ELSE <<>>

\* the dependencies of the effect that initialises the editable texts
SnippetDeps(list, l, r) ==
  << IF HasSnippet(list, l) THEN <<l, ContentOf(list, l)>> ELSE <<>>,
     IF HasSnippet(list, r) THEN <<r, ContentOf(list, r)>> ELSE <<>> >>

\* a content update that leaves the list as it is
handleUpdateSnippetContentNone(list, id, newContent) == list

\* handleUpdateSnippetContent: prev.map(s => s.id === id ? {...s, content} : s)
handleUpdateSnippetContent(list, id, newContent) ==
  [i \in 1..Len(list) |->
     IF list[i].id = id THEN [list[i] EXCEPT !.content = newContent]
     ELSE list[i]]

RECURSIVE sanitizeText(_)
\* text.replace(/\r/g, '')
sanitizeText(text) ==
  IF text = <<>> THEN <<>>
  ELSE IF Head(text) = CR THEN sanitizeText(Tail(text))
  ELSE <<Head(text)>> \o sanitizeText(Tail(text))

\* newCounter === 1 ? t(kind) : `${t(kind)} ${newCounter}`
Title(kind, newCounter) ==
  IF newCounter = 1 THEN <<kind>> ELSE <<kind, newCounter>>

\* Math.random().toString(36).substring(2, 9): an id no snippet has
NewId(list) ==
  LET used == {list[i].id : i \in 1..Len(list)} \cup {2}
  IN  (CHOOSE m \in used : \A n \in used : n <= m) + 1

\* The render that follows a handler which left the list S, the ids L and R
\* and the editable texts l0 and r0: the effect that initialises the
\* editable texts runs when a snippet id or content has changed, and the
\* effect that requests a diff runs when an editable text has changed.
\* While the debounce timer stays armed (live), one render is kept for its
\* callback.
AfterRender(S, L, R, l0, r0, live) ==
  LET changed == SnippetDeps(S, L, R) # SnippetDeps(snippets, leftId, rightId)
      l == IF changed THEN ContentOf(S, L) ELSE l0
      r == IF changed THEN ContentOf(S, R) ELSE r0
  IN  /\ editableLeft' = l /\ editableRight' = r
      /\ IF l # editableLeft \/ r # editableRight
           THEN /\ nextId + (IF live THEN 1 ELSE 0) < MaxRenders
                /\ nextId' = nextId + 1
                /\ TriggerEffect(NewRequest(l, r, editCost, cleanupMode,
                                            splitByLine))
           ELSE UNCHANGED <<nextId, cachedRequest, pendingRequest,
                            timeSinceLastRequest, inbox, timers, sent,
                            lastStep>>

\* what no handler of App touches
AppFrame ==
  UNCHANGED <<requestToSend, rawParts, processedParts, click, editCost,
              cleanupMode, splitByLine, mounted, workerRef, timeSinceLastResponse, shown,
              outbox, workerClock, overdue>>

\* The component is mounted with the snippets App starts from, the first
\* visit's two examples or none, and its first request is with the worker.
InitApp ==
  /\ \E list \in {<<>>, InitialSnippets} : AppStart(list)
  /\ editableLeft = ContentOf(snippets, leftId)
  /\ editableRight = ContentOf(snippets, rightId)
  /\ editCost = 4 /\ cleanupMode = "efficiency" /\ splitByLine = FALSE
  /\ mounted = TRUE /\ nextId = 1
  /\ workerRef = TRUE
  /\ LET r == [id |-> 1, text1 |-> editableLeft, text2 |-> editableRight,
               editCost |-> 4, cleanupMode |-> "efficiency",
               splitByLine |-> FALSE]
     IN  /\ cachedRequest = r /\ pendingRequest = r
         /\ inbox = <<r>>
  /\ timeSinceLastRequest = 0
  /\ timeSinceLastResponse = QuietPeriod
  /\ postResponseTimer = NoTimer /\ timeoutTimer = SetTimeout(ForcedBound)
  /\ lastWorkerTimestamp = 0 /\ workerDiff = <<>> /\ shownOf = 0
  /\ outbox = <<>> /\ workerClock = 1
  /\ sent = {1} /\ overdue = FALSE
  /\ lastStep = [kind |-> "edit", posted |-> TRUE, stale |-> FALSE, idle |-> TRUE]
  /\ rawParts = <<>> /\ processedParts = <<>> /\ click = NoClick

\* onPanelSelect, or a click in the sidebar
SelectPanel ==
  /\ \E p \in {"left", "right", "none"} :
       /\ p # selectedPanel
       /\ selectedPanel' = p
       /\ lastEvent' = NoEvent
  /\ UNCHANGED <<snippets, leftId, rightId, isEditMode, untitledCounter,
                 droppedCounter, pastedCounter, pasteCalls, updateTimer>>
  /\ UNCHANGED <<props, nextId, cachedRequest, pendingRequest,
                 timeSinceLastRequest, inbox, timers, sent, lastStep>>
  /\ AppFrame

\* onEditModeChange: isEditMode is a dependency of the effect that requests
\* a diff
ToggleEditMode ==
  /\ nextId + (IF updateTimer.live THEN 1 ELSE 0) < MaxRenders
  /\ isEditMode' = ~isEditMode
  /\ lastEvent' = NoEvent
  /\ nextId' = nextId + 1
  /\ TriggerEffect(NewRequest(editableLeft, editableRight, editCost,
                              cleanupMode, splitByLine))
  /\ UNCHANGED <<snippets, leftId, rightId, selectedPanel, untitledCounter,
                 droppedCounter, pastedCounter, pasteCalls, updateTimer>>
  /\ UNCHANGED props
  /\ AppFrame

\* handleSnippetDrop(side, snippetId)
handleSnippetDrop ==
  /\ \E side \in {"left", "right"}, i \in 1..Len(snippets) :
       LET id == snippets[i].id
           l == IF side = "left" THEN id ELSE leftId
           r == IF side = "right" THEN id ELSE rightId
       IN  /\ <<l, r>> # <<leftId, rightId>>
           /\ leftId' = l /\ rightId' = r
           /\ lastEvent' = NoEvent
           /\ AfterRender(snippets, l, r, editableLeft, editableRight,
                          updateTimer.live)
  /\ UNCHANGED <<snippets, selectedPanel, isEditMode, untitledCounter,
                 droppedCounter, pastedCounter, pasteCalls, updateTimer>>
  /\ UNCHANGED <<editCost, cleanupMode, splitByLine>>
  /\ AppFrame

\* handleSaveSnippet('', title, content): the New Snippet button and the
\* editor saved, with a title typed (user) or left empty
handleSaveSnippet ==
  /\ Len(snippets) < MaxSnippets
  /\ \E typed \in BOOLEAN, content \in {<<"a">>} :
       LET newId == NewId(snippets)
           newCounter == untitledCounter + 1
           finalTitle == IF typed THEN <<"user">>
                         ELSE Title("untitled", newCounter)
           S == Append(snippets, [id |-> newId, title |-> finalTitle,
                                  content |-> content, auto |-> ~typed])
           l == IF selectedPanel = "left" THEN newId ELSE leftId
           r == IF selectedPanel = "right" THEN newId ELSE rightId
       IN  /\ untitledCounter' = newCounter
           /\ snippets' = S
           /\ leftId' = l /\ rightId' = r
           /\ lastEvent' = NoEvent
           /\ AfterRender(S, l, r, editableLeft, editableRight, updateTimer.live)
  /\ UNCHANGED <<selectedPanel, isEditMode, droppedCounter, pastedCounter,
                 pasteCalls, updateTimer>>
  /\ UNCHANGED <<editCost, cleanupMode, splitByLine>>
  /\ AppFrame

\* What handleTextDrop(content, side, source) reads of the render that
\* created it: the id the side shows, whether a snippet has it, and the
\* counter of the source.
Closure(side, source) ==
  LET currentId == IF side = "left" THEN leftId ELSE rightId
  IN  [side |-> side,
       currentId |-> IF side = "none" THEN 0 ELSE currentId,
       found |-> side # "none" /\ HasSnippet(snippets, currentId),
       counter |-> IF source = "drop" THEN droppedCounter ELSE pastedCounter]

\* handleTextDrop(content, side, source) as the render c created it: the
\* ids and the counter are those of that render, while the list is updated
\* through its latest value
TextDrop(c, content, source) ==
  LET newId == NewId(snippets)
      newCounter == c.counter + 1
      title == IF source = "drop" THEN Title("dropped", newCounter)
               ELSE Title("pasted", newCounter)
      S == IF c.found
             THEN handleUpdateSnippetContent(snippets, c.currentId, content)
             ELSE Append(snippets, [id |-> newId, title |-> title,
                                    content |-> content, auto |-> TRUE])
      l == IF ~c.found /\ c.side = "left" THEN newId ELSE leftId
      r == IF ~c.found /\ c.side = "right" THEN newId ELSE rightId
  IN  /\ c.found \/ Len(snippets) < MaxSnippets
      /\ snippets' = S
      /\ droppedCounter' = IF ~c.found /\ source = "drop" THEN newCounter
                           ELSE droppedCounter
      /\ pastedCounter' = IF ~c.found /\ source = "paste" THEN newCounter
                          ELSE pastedCounter
      /\ leftId' = l /\ rightId' = r
      /\ AfterRender(S, l, r, editableLeft, editableRight, updateTimer.live)

\* text dropped on the sidebar or on a panel
handleTextDrop ==
  /\ \E content \in ClipboardValues, side \in {"left", "right", "none"} :
       TextDrop(Closure(side, "drop"), content, "drop")
  /\ lastEvent' = NoEvent
  /\ UNCHANGED <<selectedPanel, isEditMode, untitledCounter, pasteCalls,
                 updateTimer>>
  /\ UNCHANGED <<editCost, cleanupMode, splitByLine>>
  /\ AppFrame

\* Ctrl+V with a panel selected: handleKeyDown up to its await of
\* navigator.clipboard.readText()
PasteKey ==
  /\ selectedPanel # "none" /\ Len(pasteCalls) < MaxPaste
  /\ pasteCalls' = Append(pasteCalls, Closure(selectedPanel, "paste"))
  /\ lastEvent' = NoEvent
  /\ UNCHANGED <<snippets, leftId, rightId, selectedPanel, isEditMode,
                 untitledCounter, droppedCounter, pastedCounter, updateTimer>>
  /\ UNCHANGED <<props, nextId, cachedRequest, pendingRequest,
                 timeSinceLastRequest, inbox, timers, sent, lastStep>>
  /\ AppFrame

\* the clipboard read of the oldest waiting Ctrl+V resolves and its handler
\* goes on, with what it saw when the key was pressed
PasteResolve ==
  /\ pasteCalls # <<>>
  /\ \E text \in ClipboardValues :
       TextDrop(Head(pasteCalls), text, "paste")
  /\ pasteCalls' = Tail(pasteCalls)
  /\ lastEvent' = NoEvent
  /\ UNCHANGED <<selectedPanel, isEditMode, untitledCounter, updateTimer>>
  /\ UNCHANGED <<editCost, cleanupMode, splitByLine>>
  /\ AppFrame

\* a click on the Paste button of a panel: handlePaste(id) is called only
\* when the panel shows a snippet, and the click goes on to the panel, which
\* selects it.  The clipboard read is taken as immediate.
PasteButton ==
  /\ \E side \in {"left", "right"}, text \in ClipboardValues :
       LET id == IF side = "left" THEN leftId ELSE rightId
           has == HasSnippet(snippets, id)
           sanitized == sanitizeText(text)
           S == IF has THEN handleUpdateSnippetContent(snippets, id, sanitized)
                ELSE snippets
           l0 == IF has /\ isEditMode /\ leftId = id THEN sanitized
                 ELSE editableLeft
           r0 == IF has /\ isEditMode /\ rightId = id THEN sanitized
                 ELSE editableRight
       IN  /\ snippets' = S
           /\ selectedPanel' = side
           /\ lastEvent' = [kind |-> "button", side |-> side]
           /\ AfterRender(S, leftId, rightId, l0, r0, updateTimer.live)
  /\ UNCHANGED <<leftId, rightId, isEditMode, untitledCounter,
                 droppedCounter, pastedCounter, pasteCalls, updateTimer>>
  /\ UNCHANGED <<editCost, cleanupMode, splitByLine>>
  /\ AppFrame

\* handleTextareaChange(side, value): the textarea of a side exists in edit
\* mode when the side shows a snippet.  Reading .id of the other side's
\* snippet throws when that side shows none, after the typed side's text is
\* set and before the timer is armed.
handleTextareaChange ==
  /\ isEditMode
  /\ \E side \in {"left", "right"}, value \in TextValues :
       LET id == IF side = "left" THEN leftId ELSE rightId
           other == IF side = "left" THEN rightId ELSE leftId
           throws == ~HasSnippet(snippets, other)
           both == ~throws /\ leftId = rightId
           l0 == IF side = "left" \/ both THEN value ELSE editableLeft
           r0 == IF side = "right" \/ both THEN value ELSE editableRight
       IN  /\ HasSnippet(snippets, id)
           /\ value # (IF side = "left" THEN editableLeft ELSE editableRight)
           /\ updateTimer' = IF throws THEN updateTimer
                             ELSE [live |-> TRUE, id |-> id, value |-> value]
           /\ lastEvent' = [kind |-> "type", side |-> side]
           /\ AfterRender(snippets, leftId, rightId, l0, r0,
                          ~throws \/ updateTimer.live)
  /\ UNCHANGED <<snippets, leftId, rightId, selectedPanel, isEditMode,
                 untitledCounter, droppedCounter, pastedCounter, pasteCalls>>
  /\ UNCHANGED <<editCost, cleanupMode, splitByLine>>
  /\ AppFrame

\* the callback of updateTimerRef: onUpdateSnippet(id, value)
FireUpdateTimer ==
  /\ updateTimer.live
  /\ LET S == handleUpdateSnippetContent(snippets, updateTimer.id,
                                         updateTimer.value)
     IN  /\ snippets' = S
         /\ AfterRender(S, leftId, rightId, editableLeft, editableRight, FALSE)
  /\ updateTimer' = NoUpdate
  /\ lastEvent' = NoEvent
  /\ UNCHANGED <<leftId, rightId, selectedPanel, isEditMode, untitledCounter,
                 droppedCounter, pastedCounter, pasteCalls>>
  /\ UNCHANGED <<editCost, cleanupMode, splitByLine>>
  /\ AppFrame

\* the ways snippets are created and assigned to a side
NextApp ==
  \/ SelectPanel
  \/ handleSnippetDrop
  \/ handleSaveSnippet
  \/ handleTextDrop
  \/ PasteKey
  \/ PasteResolve
  \/ PasteButton

SpecApp == InitApp /\ [][NextApp]_vars

\* editing the snippets the two sides show
NextEdit ==
  \/ ToggleEditMode
  \/ handleSnippetDrop
  \/ PasteButton
  \/ handleTextareaChange
  \/ FireUpdateTimer

SpecEdit == InitApp /\ [][NextEdit]_vars

\* an event loop that runs the debounce callback once it is due
SpecEditLive == SpecEdit /\ WF_vars(FireUpdateTimer)

\* ------------------------------------------- worker output and one click
Chars == {"a", NL}
Texts == UNION {[1..n -> Chars] : n \in 0..MaxLen}
Kinds == {"equal", "delete", "insert"}
DiffParts == [type : Kinds, value : Texts]
PartSeqs == UNION {[1..n -> DiffParts] : n \in 0..MaxParts}

\* the text the operations of kind own, with the equal ones, spell
Reconstruct(diff, own) ==
  LET keep == {i \in 1..Len(diff) : diff[i].type = "equal" \/ diff[i].type = own}
  IN  JoinValues(FilterFrom(diff, keep, 1))

\* The component is mounted and its first request is with the worker, whose
\* computeDiff has returned rawParts for the two buffers.  diff_main is not
\* part of this model beyond one character, so rawParts is any sequence of
\* operations and the buffers are the texts it spells.
InitClick ==
  /\ rawParts \in PartSeqs
  /\ splitByLine \in BOOLEAN
  /\ editableLeft = Reconstruct(rawParts, "delete")
  /\ editableRight = Reconstruct(rawParts, "insert")
  /\ editCost = 4 /\ cleanupMode = "efficiency"
  /\ mounted = TRUE /\ nextId = 1
  /\ workerRef = TRUE
  /\ LET r == [id |-> 1, text1 |-> editableLeft, text2 |-> editableRight,
               editCost |-> 4, cleanupMode |-> "efficiency",
               splitByLine |-> splitByLine]
     IN  /\ cachedRequest = r /\ pendingRequest = r
         /\ inbox = <<r>>
  /\ timeSinceLastRequest = 0
  /\ timeSinceLastResponse = QuietPeriod
  /\ postResponseTimer = NoTimer /\ timeoutTimer = SetTimeout(ForcedBound)
  /\ lastWorkerTimestamp = 0 /\ workerDiff = <<>> /\ shownOf = 0
  /\ outbox = <<>> /\ workerClock = 1
  /\ sent = {1} /\ overdue = FALSE
  /\ lastStep = [kind |-> "edit", posted |-> TRUE, stale |-> FALSE, idle |-> TRUE]
  /\ processedParts = <<>> /\ click = NoClick
  /\ AppStart(<< [id |-> 1, title |-> <<"example", 1>>,
                  content |-> editableLeft, auto |-> FALSE],
                 [id |-> 2, title |-> <<"example", 2>>,
                  content |-> editableRight, auto |-> FALSE] >>)

\* the worker's listener from the return of computeDiff on: the try branch
SplitAndPost ==
  /\ inbox # <<>> /\ Head(inbox).id = 1
  /\ processedParts' = split_diff_parts(rawParts, Head(inbox).splitByLine)
  /\ outbox' = Append(outbox, [parts |-> processedParts',
                               timestamp |-> workerClock,
                               of |-> Head(inbox).id])
  /\ inbox' = Tail(inbox)
  /\ lastStep' = [kind |-> "respond", posted |-> FALSE, stale |-> FALSE, idle |-> FALSE]
  /\ UNCHANGED <<app, requestToSend, rawParts, click, props, mounted, nextId,
                 workerRef,
                 cachedRequest, pendingRequest, timeSinceLastRequest,
                 timeSinceLastResponse, timers, shown, workerClock, sent,
                 overdue>>

\* a click on operation index of the displayed diff, in the left or the
\* right pane: handleDiffClick, the update sink storing the new content, the
\* effect that copies it into the buffer and the effect that requests a new
\* diff.  A pane renders its operations when its side shows a snippet; in
\* edit mode the textarea lies over them and takes the click.
Click ==
  /\ mounted /\ workerRef /\ click = NoClick /\ ~isEditMode
  /\ \E index \in 1..Len(workerDiff), side \in {"left", "right"},
        ctrl \in BOOLEAN :
       LET res == handleDiffClick(workerDiff, index, side, ctrl)
           id == IF side = "left" THEN leftId ELSE rightId
           S == IF res.called
                  THEN handleUpdateSnippetContent(snippets, id, res.newContent)
                  ELSE snippets
       IN  /\ HasSnippet(snippets, id)
           /\ Rendered(workerDiff, index, side)
           /\ click' = [index |-> index, side |-> side, ctrl |-> ctrl,
                        called |-> res.called, newContent |-> res.newContent,
                        error |-> res.error]
           /\ snippets' = S
           /\ lastEvent' = [kind |-> "click", side |-> side]
           /\ AfterRender(S, leftId, rightId, editableLeft, editableRight,
                          updateTimer.live)
  /\ UNCHANGED <<leftId, rightId, selectedPanel, isEditMode, untitledCounter,
                 droppedCounter, pastedCounter, pasteCalls, updateTimer>>
  /\ UNCHANGED <<requestToSend, rawParts, processedParts, editCost,
                 cleanupMode, splitByLine,
                 mounted, workerRef, timeSinceLastResponse, shown, outbox,
                 workerClock, overdue>>

NextClick ==
  \/ SplitAndPost
  \/ Receive
  \/ Click

SpecClick == InitClick /\ [][NextClick]_vars

\* snippets saved from the sidebar into the selected panel, and edited
NextOneSide ==
  \/ SelectPanel
  \/ handleSaveSnippet
  \/ ToggleEditMode
  \/ handleTextareaChange
  \/ FireUpdateTimer

SpecOneSide == InitApp /\ [][NextOneSide]_vars

\* ------------------------------------------- editing and hunk actions
\* The snippets App starts with, edited and assigned while the worker
\* answers the first request, and one click on a hunk.  Time does not pass.
NextHunk ==
  \/ ToggleEditMode
  \/ handleSnippetDrop
  \/ PasteButton
  \/ handleTextareaChange
  \/ FireUpdateTimer
  \/ WorkerRespond
  \/ Receive
  \/ Click

SpecHunk == InitApp /\ [][NextHunk]_vars

\* ------------------------------------------------------------ properties

\* the step is a run of the effect for a new request (an edit)
EditStep == lastStep'.kind = "edit" /\ nextId' = nextId + 1

\* the step is onmessage handling the oldest undelivered response
ReceiveStep ==
  lastStep'.kind = "receive" /\ outbox # <<>> /\ outbox' = Tail(outbox)

\* the scheduler records nothing in flight
Idle == pendingRequest = NoRequest

\* C2: a response stamped lower than the last accepted one is discarded and
\* leaves the displayed operations and the last accepted timestamp as they
\* were; any other response is published; so the last accepted timestamp
\* never decreases, in whatever order the stamps arrive.
C2_NoStaleness ==
  [][ /\ ReceiveStep =>
           IF Head(outbox).timestamp < lastWorkerTimestamp
             THEN /\ workerDiff' = workerDiff
                  /\ lastWorkerTimestamp' = lastWorkerTimestamp
             ELSE /\ workerDiff' = Head(outbox).parts
                  /\ lastWorkerTimestamp' = Head(outbox).timestamp
      /\ lastWorkerTimestamp' >= lastWorkerTimestamp ]_vars

\* a response stamped lower than the displayed one has just been discarded
C2_Witness ==
  /\ lastStep.kind = "receive" /\ lastStep.stale
  /\ lastWorkerTimestamp = MaxStamp /\ shownOf >= 1

\* C4 as stated: never more than one request submitted and not answered.
C4_AtMostOneOutstanding == Outstanding <= 1

\* C4 as amended: one buffered request at most (the single cachedRequest
\* slot), and at most one request submitted and not answered for as long as
\* no request has stayed unanswered for the forced-submit bound.
C4_AtMostOneUntilOverdue == ~overdue => Outstanding <= 1

\* one request in flight and a newer one buffered behind it
C4_Witness ==
  /\ ~overdue /\ Outstanding = 1
  /\ pendingRequest # NoRequest /\ cachedRequest.id > pendingRequest.id

\* C5: an edit that arrives while a request is outstanding and within the
\* forced-submit bound of the last submission only replaces the buffered
\* request: nothing is posted and no timer is armed.
C5_CoalesceWhileBusy ==
  [][ (EditStep /\ Outstanding >= 1 /\ timeSinceLastRequest <= ForcedBound)
        => /\ inbox' = inbox
           /\ cachedRequest'.id = nextId'
           /\ UNCHANGED <<pendingRequest, postResponseTimer, timeoutTimer>>
    ]_vars

\* C7: an edit in Idle less than 100 after the last response is not
\* submitted in that step; the quiet timer is armed for no more than the
\* remaining quiet time and will submit the buffered request.
C7_QuietPeriod ==
  [][ (EditStep /\ Idle /\ timeSinceLastResponse < QuietPeriod)
        => /\ inbox' = inbox
           /\ cachedRequest'.id = nextId'
           /\ postResponseTimer'.live
           /\ postResponseTimer'.left <= QuietPeriod - timeSinceLastResponse
    ]_vars

\* C7 outside the case the code treats otherwise: more than 3000 since the
\* last submission
C7_QuietPeriodUnlessForced ==
  [][ (EditStep /\ Idle /\ timeSinceLastResponse < QuietPeriod
                /\ timeSinceLastRequest <= ForcedBound)
        => /\ inbox' = inbox
           /\ cachedRequest'.id = nextId'
           /\ postResponseTimer'.live
           /\ postResponseTimer'.left <= QuietPeriod - timeSinceLastResponse
    ]_vars

\* C9: on a response, a buffered request newer than the one in flight is
\* scheduled 100 later and nothing is posted in that step; otherwise both
\* slots are cleared and no timer stays armed.
C9_OnResponse ==
  [][ ReceiveStep =>
        /\ inbox' = inbox
        /\ ~timeoutTimer'.live
        /\ IF cachedRequest # pendingRequest
             THEN /\ postResponseTimer' = SetTimeout(QuietPeriod)
                  /\ UNCHANGED <<cachedRequest, pendingRequest>>
             ELSE /\ cachedRequest' = NoRequest
                  /\ pendingRequest' = NoRequest
                  /\ ~postResponseTimer'.live
    ]_vars

\* a response has just scheduled the buffered newer request
C9_Witness ==
  /\ lastStep.kind = "receive"
  /\ postResponseTimer = SetTimeout(QuietPeriod)
  /\ pendingRequest # NoRequest /\ cachedRequest.id > pendingRequest.id

\* C10: an edit in Idle with at least 100 since the last response (or no
\* response yet) is posted in the same step; the scheduler is then Inflight
\* with the forced-submit timer armed.
C10_IdleSubmit ==
  [][ (EditStep /\ Idle /\ timeSinceLastResponse >= QuietPeriod)
        => /\ inbox' = Append(inbox, cachedRequest')
           /\ cachedRequest'.id = nextId'
           /\ pendingRequest' = cachedRequest'
           /\ timeoutTimer' = SetTimeout(ForcedBound)
    ]_vars

\* an edit made in Idle, after a response and a full quiet period, has just
\* been posted
C10_Witness ==
  /\ lastStep.kind = "edit" /\ lastStep.idle /\ lastStep.posted
  /\ timeSinceLastResponse = QuietPeriod /\ shownOf >= 1
  /\ ~overdue /\ inbox = <<cachedRequest>>


\* the request the effect builds from the current texts and parameters
CurrentRequest ==
  [id |-> nextId, text1 |-> editableLeft, text2 |-> editableRight,
   editCost |-> editCost, cleanupMode |-> cleanupMode,
   splitByLine |-> splitByLine]

\* the step posts a request to the worker
PostStep == Len(inbox') = Len(inbox) + 1

\* C1: once the edits stop, the request of the last edit is submitted and
\* the displayed result becomes, and stays, the worker's result for it.
C1_Freshness ==
  <>[](/\ nextId \in sent
       /\ shownOf = nextId
       /\ workerDiff = WorkerParts(CurrentRequest))

\* the last of a burst of edits is displayed and an earlier request of the
\* burst was never submitted
C1_Witness ==
  /\ nextId = MaxEdits /\ shownOf = nextId /\ sent # 1..nextId
  /\ workerDiff = WorkerParts(CurrentRequest)
  /\ Outstanding = 0 /\ Idle

C8_ForcedFlush ==
  (cachedRequest # pendingRequest /\ Outstanding >= 1
     /\ timeSinceLastRequest >= ForcedBound)
    ~> (nextId \in sent)

\* the timeout timer has just posted the buffered request behind a request
\* the worker still holds
C8_Witness ==
  /\ lastStep.kind = "timeout" /\ lastStep.posted
  /\ Len(inbox) = 2 /\ outbox = <<>>
  /\ inbox[1].id < inbox[2].id /\ inbox[2] = cachedRequest


\* ------------------------------------------------- line splitting, clicks

\* the worker has run split_diff_parts on rawParts
SplitDone == inbox = <<>> /\ outbox # <<>>

\* the texts of the operations of one kind, joined in order
KindText(diff, kind) ==
  LET keep == {i \in 1..Len(diff) : diff[i].type = kind}
  IN  JoinValues(FilterFrom(diff, keep, 1))

\* C11: splitting by line changes neither reconstruction: the equal and
\* delete texts of the split sequence spell what those of the input spell,
\* likewise the equal and insert texts, and so do the texts of each kind
\* taken alone.
C11_SplitKeepsReconstruction ==
  (SplitDone /\ splitByLine) =>
    /\ \A own \in {"delete", "insert"} :
         Reconstruct(processedParts, own) = Reconstruct(rawParts, own)
    /\ \A kind \in Kinds :
         KindText(processedParts, kind) = KindText(rawParts, kind)

\* operations of two kinds, one of them of several lines, have been split
C11_Witness ==
  /\ SplitDone /\ splitByLine
  /\ Len(processedParts) > Len(rawParts)
  /\ \E i, j \in 1..Len(rawParts) :
       rawParts[i].type = "delete" /\ rawParts[j].type = "insert"

\* the maps that send each output position to an input position, in order
Origins(out, in) ==
  {f \in [1..Len(out) -> 1..Len(in)] :
     \A j \in 1..Len(out) - 1 : f[j] <= f[j + 1]}

\* C12: with splitting on, the output is the input operations' segments in
\* order: each output operation has the kind of the one input operation it
\* comes from, the segments of an input operation spell its text, a newline
\* is only ever the last character of a segment, and every segment of an
\* input operation but its last ends with a newline.
C12_SegmentShape ==
  (SplitDone /\ splitByLine) =>
    /\ \E f \in Origins(processedParts, rawParts) :
         /\ \A j \in 1..Len(processedParts) :
              processedParts[j].type = rawParts[f[j]].type
         /\ \A i \in 1..Len(rawParts) :
              LET mine == {j \in 1..Len(processedParts) : f[j] = i}
              IN  JoinValues(FilterFrom(processedParts, mine, 1))
                    = rawParts[i].value
         /\ \A j \in 1..Len(processedParts) - 1 :
              f[j] = f[j + 1] =>
                /\ processedParts[j].value # <<>>
                /\ processedParts[j].value[Len(processedParts[j].value)] = NL
    /\ \A j \in 1..Len(processedParts) :
         \A q \in 1..Len(processedParts[j].value) :
           processedParts[j].value[q] = NL =>
             q = Len(processedParts[j].value)

\* an operation whose text has a newline before its end has been split
C12_Witness ==
  /\ SplitDone /\ splitByLine
  /\ \E i \in 1..Len(rawParts) : rawParts[i].value = <<NL, "a">>
  /\ \E i \in 1..Len(rawParts) : rawParts[i].value = <<"a", NL>>
  /\ Len(processedParts) = Len(rawParts) + 1

\* the newlines of value that end an empty line
EmptyLines(value) ==
  {q \in 1..Len(value) : value[q] = NL /\ (q = 1 \/ value[q - 1] = NL)}

RECURSIVE CountEmptyLines(_, _)
CountEmptyLines(diff, kind) ==
  IF diff = <<>> THEN 0
  ELSE (IF Head(diff).type = kind
          THEN Cardinality(EmptyLines(Head(diff).value)) ELSE 0)
       + CountEmptyLines(Tail(diff), kind)

\* C13: with splitting on, no output operation has an empty text (nothing is
\* emitted after a final newline, nor for an empty text), and every empty
\* line of an input text is emitted, as an operation of that kind whose text
\* is the newline alone.
C13_NoEmptyOperations ==
  (SplitDone /\ splitByLine) =>
    /\ \A j \in 1..Len(processedParts) : processedParts[j].value # <<>>
    /\ \A kind \in Kinds :
         Cardinality({j \in 1..Len(processedParts) :
                        /\ processedParts[j].type = kind
                        /\ processedParts[j].value = <<NL>>})
           = CountEmptyLines(rawParts, kind)

\* a text ending in a newline and a text with an empty line have been split
C13_Witness ==
  /\ SplitDone /\ splitByLine
  /\ \E i \in 1..Len(rawParts) : rawParts[i].value = <<"a", NL>>
  /\ \E i \in 1..Len(rawParts) : rawParts[i].value = <<NL, NL>>
  /\ \E i \in 1..Len(rawParts) : rawParts[i].value = <<>>

\* C14: with splitByLine off, split_diff_parts returns the sequence it was
\* given.
C14_SplitOffIsIdentity ==
  (SplitDone /\ ~splitByLine) => processedParts = rawParts

\* texts with newlines have gone through split_diff_parts with the switch off
C14_Witness ==
  /\ SplitDone /\ ~splitByLine
  /\ Len(rawParts) >= 2
  /\ \E i \in 1..Len(rawParts) : rawParts[i].value = <<NL, "a">>
  /\ processedParts = rawParts

\* ------------------------------------------------------- worker failure

\* C15: every step of the worker's listener, whether its try branch ran
\* through or threw, takes one request and posts one response for it,
\* stamped; when it threw the response has no operations, and the scheduler
\* is left as it was.  The scheduler handles a response without operations
\* like any other: unless its stamp is below the last accepted one it becomes
\* the displayed result.
C15_FailureContained ==
  /\ [][ lastStep'.kind \in {"respond", "throw"} =>
           /\ inbox # <<>> /\ inbox' = Tail(inbox)
           /\ Len(outbox') = Len(outbox) + 1
           /\ SubSeq(outbox', 1, Len(outbox)) = outbox
           /\ outbox'[Len(outbox')].of = Head(inbox).id
           /\ outbox'[Len(outbox')].timestamp \in 1..MaxStamp
           /\ lastStep'.kind = "throw" => outbox'[Len(outbox')].parts = <<>>
           /\ UNCHANGED <<workerRef, cachedRequest, pendingRequest, timers,
                          shown>> ]_vars
  /\ [][ (ReceiveStep /\ Head(outbox).parts = <<>>) =>
           IF Head(outbox).timestamp >= lastWorkerTimestamp
             THEN /\ workerDiff' = <<>>
                  /\ lastWorkerTimestamp' = Head(outbox).timestamp
                  /\ shownOf' = Head(outbox).of
             ELSE UNCHANGED shown ]_vars

\* the worker threw on the latest request, whose diff is not empty, and the
\* empty response is what is displayed
C15_Witness ==
  /\ lastStep.kind = "receive"
  /\ nextId >= 1 /\ shownOf = nextId
  /\ workerDiff = <<>>
  /\ WorkerParts(CurrentRequest) # <<>>

\* ------------------------------------------------------------ reconciler

\* handleDiffClick has run with Ctrl held, on operation click.index
Clicked == click.side # "none" /\ click.ctrl

\* the kind the pane of a side shows as its own text, and the other one
Own(side) == IF side = "left" THEN "delete" ELSE "insert"
Foreign(side) == IF side = "left" THEN "insert" ELSE "delete"

\* the kind of the displayed operation i, if there is one
TypeAt(i) ==
  IF i \in 1..Len(workerDiff) THEN workerDiff[i].type ELSE "undefined"

\* what the operations before and after position k spell on a side
Before(k, side) == Reconstruct(SubSeq(workerDiff, 1, k - 1), Own(side))
After(k, side) ==
  Reconstruct(SubSeq(workerDiff, k + 1, Len(workerDiff)), Own(side))

\* C16: a click from the left on a delete immediately followed by an insert
\* yields the left text with the delete's text replaced by the insert's and
\* all else as it was; a click from the right on an insert immediately
\* preceded by a delete yields the right text with the insert's text
\* replaced by the delete's.
C16_Substitution ==
  LET k == click.index IN
  /\ (Clicked /\ click.side = "left" /\ TypeAt(k) = "delete"
        /\ TypeAt(k + 1) = "insert") =>
       /\ click.called
       /\ click.newContent =
            Before(k, "left") \o workerDiff[k + 1].value \o After(k, "left")
       /\ editableLeft = click.newContent
  /\ (Clicked /\ click.side = "right" /\ TypeAt(k) = "insert"
        /\ TypeAt(k - 1) = "delete") =>
       /\ click.called
       /\ click.newContent =
            Before(k, "right") \o workerDiff[k - 1].value \o After(k, "right")
       /\ editableRight = click.newContent

\* the delete of [equal a, delete newline, insert aa] clicked from the left
C16_Witness ==
  /\ Clicked /\ click.side = "left" /\ click.index = 2
  /\ workerDiff = << [type |-> "equal", value |-> <<"a">>],
                    [type |-> "delete", value |-> <<NL>>],
                    [type |-> "insert", value |-> <<"a", "a">>] >>
  /\ editableLeft = <<"a", "a", "a">>

\* operations k and k+1 are a delete and an insert, in either order
AdjacentPair(k) ==
  {TypeAt(k), TypeAt(k + 1)} = {"delete", "insert"}

C18_PureRemoval ==
  LET k == click.index IN
  (Clicked /\ TypeAt(k) = Own(click.side)
     /\ TypeAt(k - 1) # Foreign(click.side)
     /\ TypeAt(k + 1) # Foreign(click.side)) =>
    /\ click.called
    /\ click.newContent = Before(k, click.side) \o After(k, click.side)
    /\ click.side = "left" => editableLeft = click.newContent
    /\ click.side = "right" => editableRight = click.newContent

\* the delete of [equal a, delete newline, equal aa] clicked from the left
C18_Witness ==
  /\ Clicked /\ click.side = "left" /\ click.index = 2
  /\ workerDiff = << [type |-> "equal", value |-> <<"a">>],
                    [type |-> "delete", value |-> <<NL>>],
                    [type |-> "equal", value |-> <<"a", "a">>] >>
  /\ editableLeft = <<"a", "a", "a">>

\* C19: a click from the left on an insert, or from the right on a delete,
\* yields that side's text with the clicked operation's text added at its
\* position, all else as it was.
C19_InsertionAcceptance ==
  LET k == click.index IN
  (Clicked /\ TypeAt(k) = Foreign(click.side)) =>
    /\ click.called
    /\ click.newContent =
         Before(k, click.side) \o workerDiff[k].value \o After(k, click.side)
    /\ click.side = "left" => editableLeft = click.newContent
    /\ click.side = "right" => editableRight = click.newContent

\* the delete of [equal a, delete newline a, equal a] clicked from the right
C19_Witness ==
  /\ Clicked /\ click.side = "right" /\ click.index = 2
  /\ workerDiff = << [type |-> "equal", value |-> <<"a">>],
                    [type |-> "delete", value |-> <<NL, "a">>],
                    [type |-> "equal", value |-> <<"a">>] >>
  /\ editableRight = <<"a", NL, "a", "a">>
  /\ editableLeft = editableRight

\* the displayed sequence with its operations from..to replaced by ops
Splice(from, to, ops) ==
  SubSeq(workerDiff, 1, from - 1) \o ops
    \o SubSeq(workerDiff, to + 1, Len(workerDiff))

\* the sequences left of the displayed one when the hunk at k is settled:
\* operation k dropped, operation k made an equal, or operation k and a
\* neighbour of the opposite kind made one equal with the text of either
Residuals(k) ==
  LET eq(i) == << [type |-> "equal", value |-> workerDiff[i].value] >>
  IN  {Splice(k, k, <<>>), Splice(k, k, eq(k))}
      \cup (IF AdjacentPair(k)
              THEN {Splice(k, k + 1, eq(k)), Splice(k, k + 1, eq(k + 1))}
              ELSE {})
      \cup (IF k > 1 /\ AdjacentPair(k - 1)
              THEN {Splice(k - 1, k, eq(k)), Splice(k - 1, k, eq(k - 1))}
              ELSE {})

\* C20: whatever sequence is displayed, split by line or not, and whichever
\* displayed operation is clicked, the new buffer and the untouched other
\* buffer are spelled by the displayed sequence with the clicked hunk
\* settled and every other operation as it was; and when the displayed
\* sequence is one delete followed by one insert, a click on either from its
\* own side makes the two buffers equal.
C20_ContentOrderStable ==
  /\ (Clicked /\ click.called) =>
       /\ workerDiff[click.index].type # "equal"
       /\ \E R \in Residuals(click.index) :
            /\ editableLeft = Reconstruct(R, "delete")
            /\ editableRight = Reconstruct(R, "insert")
       /\ click.side = "left" =>
            editableRight = Reconstruct(workerDiff, "insert")
       /\ click.side = "right" =>
            editableLeft = Reconstruct(workerDiff, "delete")
  /\ (Clicked /\ Len(workerDiff) = 2 /\ TypeAt(1) = "delete"
        /\ TypeAt(2) = "insert"
        /\ TypeAt(click.index) = Own(click.side)) =>
       click.called /\ editableLeft = editableRight

\* a two-line delete and a two-line insert, split by line, and the second
\* delete clicked from the left
C20_Witness ==
  /\ Clicked /\ click.called /\ click.side = "left" /\ click.index = 2
  /\ splitByLine
  /\ rawParts = << [type |-> "delete", value |-> <<NL, "a">>],
                  [type |-> "insert", value |-> <<"a", NL>>] >>
  /\ Len(workerDiff) = 3
  /\ editableLeft # editableRight

\* C21: an action on an operation that is not actionable from the clicked
\* side (an equal operation) is reported as an error and calls the update
\* sink with nothing.
C21_MisuseReported ==
  (Clicked /\ TypeAt(click.index) = "equal") =>
    /\ click.error
    /\ ~click.called
    /\ editableLeft = Reconstruct(workerDiff, "delete")
    /\ editableRight = Reconstruct(workerDiff, "insert")

\* ----------------------------------------------------------- teardown

\* C22: the cleanup of the worker effect cancels both timers and empties the
\* buffered and the in-flight slot and leaves the displayed result alone;
\* from then on nothing is posted, no request is submitted, the slots stay
\* empty, no timer is live and the displayed result stays what it was.
C22_Teardown ==
  /\ [][ lastStep'.kind = "teardown" =>
           /\ ~workerRef'
           /\ ~postResponseTimer'.live /\ ~timeoutTimer'.live
           /\ cachedRequest' = NoRequest /\ pendingRequest' = NoRequest
           /\ UNCHANGED shown ]_vars
  /\ [][ ~workerRef =>
           /\ UNCHANGED <<workerRef, inbox, outbox, sent, shown,
                          cachedRequest, pendingRequest>>
           /\ ~postResponseTimer'.live /\ ~timeoutTimer'.live ]_vars

\* the worker was torn down with a result displayed, the latest request
\* submitted and unanswered and its timeout timer armed, and time has passed
\* since
C22_Witness ==
  /\ ~workerRef /\ lastStep.kind = "advance"
  /\ workerDiff # <<>>
  /\ timeoutTimer.ref
  /\ nextId \in sent /\ shownOf < nextId

\* ----------------------------------------------------------- snapshots

\* the request objects the scheduler and the worker's queue hold
Held ==
  ({inbox[i] : i \in 1..Len(inbox)} \cup {cachedRequest, pendingRequest})
    \ {NoRequest}

\* C23: no step changes a field of a request object that is buffered, in
\* flight or with the worker; the buffered request is always the snapshot of
\* the latest edit; and every submission posts the snapshot of the latest
\* edit.
C23_SnapshotImmutable ==
  /\ [][ \A r \in Held : \A q \in Held' : r.id = q.id => r = q ]_vars
  /\ [](cachedRequest # NoRequest =>
          cachedRequest = [id |-> nextId, text1 |-> editableLeft,
                           text2 |-> editableRight, editCost |-> editCost,
                           cleanupMode |-> cleanupMode,
                           splitByLine |-> splitByLine])
  /\ [][ (Len(inbox') = Len(inbox) + 1) =>
           /\ inbox'[Len(inbox')].id = nextId'
           /\ inbox'[Len(inbox')].text1 = editableLeft'
           /\ inbox'[Len(inbox')].text2 = editableRight'
           /\ inbox'[Len(inbox')].editCost = editCost'
           /\ inbox'[Len(inbox')].cleanupMode = cleanupMode'
           /\ inbox'[Len(inbox')].splitByLine = splitByLine' ]_vars

\* the worker holds a request whose texts and switches are no longer those
\* of the editor, and the latest edit is buffered behind it
C23_Witness ==
  /\ inbox # <<>> /\ Head(inbox).id < nextId
  /\ pendingRequest = Head(inbox)
  /\ Head(inbox).text1 # editableLeft
  /\ Head(inbox).splitByLine # splitByLine
  /\ cachedRequest.id = nextId

\* the value of the edit just typed
TypedValue ==
  IF lastEvent.side = "left" THEN editableLeft ELSE editableRight

\* the last event was an edit typed while both sides show the snippet id
TypedShared(id) ==
  lastEvent.kind = "type" /\ leftId = id /\ rightId = id

\* an edit typed while both sides show one snippet sets both editable texts
\* to the typed value and arms the debounce timer with it
DualWritten ==
  (lastEvent.kind = "type" /\ leftId = rightId) =>
    /\ editableLeft = TypedValue /\ editableRight = TypedValue
    /\ updateTimer = [live |-> TRUE, id |-> leftId, value |-> TypedValue]

\* C24 as stated: an edit typed while both sides show one snippet sets both
\* editable texts to the typed value in the same step, and the snippet's
\* stored content eventually becomes that value, for every such edit
C24_EveryValueReachesSink ==
  /\ [] DualWritten
  /\ \A id \in 1..2, v \in TextValues :
       (TypedShared(id) /\ TypedValue = v) ~> (ContentOf(snippets, id) = v)

\* C24: an edit typed while both sides show one snippet sets both editable
\* texts to the typed value in the same step and arms the debounce timer
\* with it; the snippet's stored content then becomes that value unless a
\* later edit arms the timer anew before it fires
C24_DualWrite ==
  /\ [] DualWritten
  /\ \A id \in 1..2, v \in TextValues :
       (TypedShared(id) /\ TypedValue = v) ~>
          \/ ContentOf(snippets, id) = v
          \/ /\ updateTimer.live
             /\ updateTimer # [live |-> TRUE, id |-> id, value |-> v]

\* both sides show snippet 1, an edit typed on the right has gone through
\* the debounce and the stored content is the typed value, which differs
\* from what the snippet started with
C24_Witness ==
  /\ leftId = 1 /\ rightId = 1 /\ isEditMode
  /\ snippets # <<>> /\ ContentOf(snippets, 1) = <<>>
  /\ editableLeft = <<>> /\ editableRight = <<>>
  /\ updateTimer = NoUpdate

\* the id a side shows
SideId(side) == IF side = "left" THEN leftId ELSE rightId

\* C29: a click on the Paste button of a side that shows no snippet creates
\* a snippet holding the clipboard text and assigns it to that side
C29_PasteButtonCreates ==
  [][ \A side \in {"left", "right"} :
        ( /\ lastEvent' = [kind |-> "button", side |-> side]
          /\ ~HasSnippet(snippets, SideId(side)) ) =>
        ( /\ Len(snippets') = Len(snippets) + 1
          /\ HasSnippet(snippets', SideId(side)')
          /\ \E text \in ClipboardValues :
               ContentOf(snippets', SideId(side)') \in
                 {text, sanitizeText(text)} ) ]_vars

\* C30: no two snippets carry the same automatically assigned title
C30_UniqueTitles ==
  \A i, j \in 1..Len(snippets) :
    (i # j /\ snippets[i].auto /\ snippets[j].auto) =>
      snippets[i].title # snippets[j].title

\* C31: as long as no request has stayed unanswered for the forced-submit
\* bound, a request is posted only when no request is outstanding, whether
\* by an edit, the quiet-period timer or the timeout timer, so at most one
\* request is outstanding.
C31_OneOutstandingInTime ==
  [][ /\ (PostStep /\ ~overdue) => Outstanding = 0
      /\ ~overdue' => Outstanding' <= 1 ]_vars

\* the quiet-period timer has just posted the request buffered behind one
\* that was answered in time, and it is the only outstanding one
C31_Witness ==
  /\ lastStep.kind = "quiet" /\ lastStep.posted /\ ~overdue
  /\ Outstanding = 1 /\ shownOf = 1 /\ sent = {1, 2}
  /\ inbox = <<pendingRequest>>

\* C32: in the earlier scheduler a request buffered with nothing in flight
\* is never left with no timer armed and no request outstanding, and it is
\* eventually submitted even if no further edit follows
C32_FinalEditSubmitted ==
  /\ [](( /\ workerRef /\ cachedRequest # NoRequest
          /\ pendingRequest = NoRequest /\ Outstanding = 0 )
          => (postResponseTimer.live \/ timeoutTimer.live))
  /\ ( /\ workerRef /\ lastStep.kind = "edit" /\ lastStep.idle
       /\ ~lastStep.posted /\ cachedRequest.id = nextId )
       ~> (nextId \in sent \/ ~workerRef)

\* a newer edit waits: the buffered request is not the one recorded in flight
NewerWaiting == workerRef /\ cachedRequest # pendingRequest

\* C33: whenever a newer edit waits under a live worker, the quiet-period
\* timer is armed, or a request is outstanding and the forced-submit timer is
\* armed
C33_NoDeadlock ==
  NewerWaiting =>
    \/ postResponseTimer.live
    \/ Outstanding >= 1 /\ timeoutTimer.live

\* an edit made in the quiet period after a response waits on the quiet
\* timer alone: nothing is outstanding and the forced-submit timer is off
C33_Witness ==
  /\ NewerWaiting /\ pendingRequest = NoRequest
  /\ postResponseTimer.live /\ ~timeoutTimer.live
  /\ Outstanding = 0 /\ shownOf >= 1 /\ lastStep.kind = "edit"

\* C34: the in-flight slot is empty only if no submitted request is still
\* unanswered, and a response that leaves a request unanswered neither
\* empties the slot nor cancels the forced-submit timer
C34_ViewMatchesReality ==
  [][ /\ (workerRef' /\ pendingRequest' = NoRequest) => Outstanding' = 0
      /\ (ReceiveStep /\ Outstanding' >= 1) =>
           /\ pendingRequest' # NoRequest
           /\ timeoutTimer'.live ]_vars

\* C35: the forced-submit timer posts nothing when no edit has arrived since
\* the in-flight request was submitted, and no request is posted twice
C35_TimeoutPostsOnlyNewer ==
  [][ /\ (lastStep'.kind = "timeout" /\ timeoutTimer.live
            /\ timeoutTimer.left = 0 /\ cachedRequest = pendingRequest)
          => inbox' = inbox
      /\ PostStep => cachedRequest'.id \notin sent ]_vars

\* C36: the worker answering first-in first-out with stamps that do not go
\* back, every response is accepted by the timestamp check and displayed,
\* and the displayed result never goes back to an earlier submitted request
C36_DisplayFollowsSubmission ==
  [][ ReceiveStep =>
        /\ Head(outbox).timestamp >= lastWorkerTimestamp
        /\ workerDiff' = Head(outbox).parts
        /\ shownOf' = Head(outbox).of
        /\ shownOf' >= shownOf ]_vars

\* after a forced flush the results of both overlapping requests have been
\* displayed, the later submitted one last, and both carried the same stamp
C36_Witness ==
  /\ overdue /\ lastStep.kind = "receive" /\ ~lastStep.stale
  /\ Cardinality(sent) >= 2 /\ shownOf = nextId /\ shownOf >= 2
  /\ Outstanding = 0 /\ lastWorkerTimestamp = 1

\* a hunk action can be applied: in view mode a pane shows an operation
\* other than Equal
CanApplyHunk ==
  /\ mounted /\ workerRef /\ ~isEditMode
  /\ \E index \in 1..Len(workerDiff), side \in {"left", "right"} :
       /\ HasSnippet(snippets, SideId(side))
       /\ Rendered(workerDiff, index, side)
       /\ workerDiff[index].type # "equal"

\* C37: whenever a hunk action can be applied, the displayed operations
\* reconstruct the current editable left and right texts
C37_DiffMatchesBuffers ==
  CanApplyHunk =>
    /\ Reconstruct(workerDiff, "delete") = editableLeft
    /\ Reconstruct(workerDiff, "insert") = editableRight

\* C38: after a hunk action has sent reconstructed content for a buffer to
\* the sink, that buffer's stored content is still the reconstructed content
\* after the debounced content update armed by an earlier edit has fired
\* (no edit or action of the user in between)
C38_HunkActionDurable ==
  [][ ( /\ lastEvent.kind = "click" /\ click.called
        /\ updateTimer.live /\ ~updateTimer'.live )
        => ContentOf(snippets', SideId(click.side)) = click.newContent ]_vars

\* the last event was an edit typed into side while it shows snippet id and
\* the other side shows another snippet
TypedInto(side, id) ==
  /\ lastEvent = [kind |-> "type", side |-> side]
  /\ SideId(side) = id /\ leftId # rightId
  /\ HasSnippet(snippets, leftId) /\ HasSnippet(snippets, rightId)

\* C39: with two distinct snippets on left and right, the debounce callback
\* that follows typed edits leaves both editable texts as typed, and every
\* typed value becomes the stored content of the snippet it was typed into,
\* unless that snippet is edited again or the side is given another snippet
\* before
C39_EveryEditReachesSink ==
  /\ [][ ( /\ lastEvent.kind = "type" /\ leftId # rightId
           /\ updateTimer.live /\ ~updateTimer'.live )
           => (editableLeft' = editableLeft /\ editableRight' = editableRight)
     ]_vars
  /\ \A side \in {"left", "right"}, id \in 1..2, v \in TextValues :
       (TypedInto(side, id) /\ TypedValue = v) ~>
          \/ ContentOf(snippets, id) = v
          \/ updateTimer.live /\ updateTimer.id = id /\ updateTimer.value # v
          \/ SideId(side) # id

\* ------------------------------------------------- one side without snippet
\* C40: after an edit typed into a side while the other side shows no
\* snippet, the side's editable text is the typed value and the debounced
\* update is armed for the side's snippet with that value
C40_OneSidedEdit ==
  \A side \in {"left", "right"} :
    ( /\ lastEvent = [kind |-> "type", side |-> side]
      /\ HasSnippet(snippets, SideId(side))
      /\ ~HasSnippet(snippets, SideId(IF side = "left" THEN "right" ELSE "left")) )
    => updateTimer = [live |-> TRUE, id |-> SideId(side), value |-> TypedValue]

\* the bounds the guards of the App actions keep
AppTypeOK ==
  /\ Len(snippets) <= MaxSnippets
  /\ Len(pasteCalls) <= MaxPaste
  /\ nextId <= MaxRenders

====
